---- MODULE Spec2Model ----
(***************************************************************************)
(* Weather-Forecast-App: js/weather.js (API layer), js/dom.js              *)
(* (presentation layer) and js/app.js (application layer).                 *)
(*                                                                         *)
(* JavaScript values are records [t, n, s]: t is the type tag, n the       *)
(* number in TENTHS of a unit (185 is 18.5) and s the string.              *)
(***************************************************************************)
EXTENDS Integers, Sequences, FiniteSets, TLC

VARIABLES
  currentWeatherData,  \* app.js: let currentWeatherData
  currentUnit,         \* app.js: let currentUnit
  apiUnitGroup,        \* app.js: let apiUnitGroup
  elements,            \* dom.js: the DOM elements the code reads and writes
  bodyClasses,         \* document.body.classList
  queries,             \* the calls of fetchAndDisplayWeather, in submission order
  gifs,                \* the calls of fetchAndDisplayGif awaiting getWeatherGif
  lastOp,              \* the handler or continuation that ran last, and its input
  rawData,             \* processWeatherData: its argument
  processedData,       \* processWeatherData: its completion
  iconCode,            \* updatePageBackground: its argument
  category,            \* updatePageBackground: const category
  response,            \* getWeatherData: const response, the settled fetch
  weatherResult,       \* getWeatherData: its completion
  conversion           \* convertTemperature: its arguments and its results

vars == <<currentWeatherData, currentUnit, apiUnitGroup, elements, bodyClasses,
          queries, gifs, lastOp, rawData, processedData, iconCode, category,
          response, weatherResult, conversion>>

\* the state of the page and of app.js
appVars == <<currentWeatherData, currentUnit, apiUnitGroup, elements,
             queries, gifs, lastOp>>

\* the arguments and completions of the functions called on their own
callVars == <<rawData, processedData, iconCode, category, response, weatherResult,
              conversion>>

(***************************************************************************)
(* Bounds                                                                  *)
(***************************************************************************)
MaxDays == 9        \* longest days[] of a payload given to processWeatherData

MaxTenths == 190    \* daily values range over -19.0 .. 19.0 in steps of 0.1

MaxQueries == 2     \* non-empty queries submitted in one session

MaxStatus == 520    \* HTTP statuses 200 .. MaxStatus of a settled fetch

MaxDegrees == 60    \* whole temperatures -MaxDegrees .. MaxDegrees given to convertTemperature

(***************************************************************************)
(* JavaScript values                                                       *)
(***************************************************************************)
Undefined == [t |-> "undefined", n |-> 0, s |-> ""]

Null == [t |-> "null", n |-> 0, s |-> ""]

NaN == [t |-> "nan", n |-> 0, s |-> ""]

Num(x) == [t |-> "num", n |-> x, s |-> ""]

Str(x) == [t |-> "str", n |-> 0, s |-> x]

\* a rounding that sends a tie away from zero
MathRound_awayFromZero(x) ==
  CASE x.t = "num" -> IF x.n >= 0 THEN Num(10 * ((x.n + 5) \div 10))
                      ELSE Num(0 - 10 * (((0 - x.n) + 5) \div 10))
    [] x.t = "null" -> Num(0)
    [] x.t = "str" /\ x.s = "" -> Num(0)
    [] OTHER -> NaN

\* Math.round: the nearest integer, a tie going to the larger one
\* (floor(x + 0.5)); ToNumber(null) is 0, ToNumber(undefined) is NaN.
\* Strings are the non-numeric ones only: "" is 0, any other is NaN.
MathRound(x) ==
  CASE x.t = "num" -> Num(10 * ((x.n + 5) \div 10))
    [] x.t = "null" -> Num(0)
    [] x.t = "str" /\ x.s = "" -> Num(0)
    [] OTHER -> NaN

\* Array.prototype.slice(start, end) for 0 <= start <= end: the elements at
\* the 0-based indices start .. min(end, length) - 1.
Slice(arr, start, end) ==
  LET stop == IF end < Len(arr) THEN end ELSE Len(arr)
  IN  IF start >= stop THEN << >>
      ELSE [i \in 1..(stop - start) |-> arr[start + i]]

(***************************************************************************)
(* weather.js: processWeatherData                                          *)
(***************************************************************************)
\* a completion of a function: a return value or a thrown error
Return(v) == [threw |-> FALSE, error |-> "", value |-> v]

Throw(msg) == [threw |-> TRUE, error |-> msg, value |-> Null]

TypeErrorMessage == "Cannot read properties of undefined"

CurrentOf(currentDay) ==
  [ datetime    |-> currentDay.datetime,
    temp        |-> MathRound(currentDay.temp),
    feelsLike   |-> MathRound(currentDay.feelslike),
    tempMax     |-> MathRound(currentDay.tempmax),
    tempMin     |-> MathRound(currentDay.tempmin),
    humidity    |-> MathRound(currentDay.humidity),
    windSpeed   |-> MathRound(currentDay.windspeed),
    visibility  |-> currentDay.visibility,
    pressure    |-> currentDay.pressure,
    uvIndex     |-> currentDay.uvindex,
    conditions  |-> currentDay.conditions,
    description |-> currentDay.description,
    icon        |-> currentDay.icon,
    sunrise     |-> currentDay.sunrise,
    sunset      |-> currentDay.sunset,
    precipProb  |-> currentDay.precipprob ]

ForecastDay(day) ==
  [ date       |-> day.datetime,
    tempMax    |-> MathRound(day.tempmax),
    tempMin    |-> MathRound(day.tempmin),
    conditions |-> day.conditions,
    icon       |-> day.icon,
    precipProb |-> day.precipprob,
    humidity   |-> MathRound(day.humidity) ]

\* a forecast that starts at today: days.slice(0, 7)
ForecastOf_fromToday(days) ==
  LET next == Slice(days, 0, 7)
  IN  [i \in 1..Len(next) |-> ForecastDay(next[i])]

ForecastOf(days) ==
  LET next == Slice(days, 1, 8)
  IN  [i \in 1..Len(next) |-> ForecastDay(next[i])]

\* rawData.days[0] of an empty array is undefined, and reading
\* currentDay.datetime then throws a TypeError.
processWeatherData(raw) ==
  IF Len(raw.days) = 0
  THEN Throw(TypeErrorMessage)
  ELSE Return([ location    |-> [ name        |-> raw.resolvedAddress,
                                  timezone    |-> raw.timezone,
                                  coordinates |-> [ latitude  |-> raw.latitude,
                                                    longitude |-> raw.longitude ] ],
                current     |-> CurrentOf(raw.days[1]),
                forecast    |-> ForecastOf(raw.days),
                description |-> raw.description ])

(***************************************************************************)
(* weather.js: convertTemperature                                          *)
(***************************************************************************)
\* a conversion that rounds the factor before it multiplies:
\* temp * Math.round(9/5) + 32 and (temp - 32) * Math.round(5/9)
convertTemperature_roundedFactor(temp, fromUnit, toUnit) ==
  LET n == IF temp.t = "num" THEN temp.n ELSE 0
      numeric == temp.t \in {"num", "null"}
  IN  IF fromUnit = toUnit THEN temp
      ELSE IF fromUnit = "C" /\ toUnit = "F"
           THEN IF numeric THEN Num(2 * n + 320) ELSE NaN
      ELSE IF fromUnit = "F" /\ toUnit = "C"
           THEN IF numeric THEN Num(n - 320) ELSE NaN
      ELSE temp

\* a conversion that rounds whatever it returns
convertTemperature_alwaysRounding(temp, fromUnit, toUnit) ==
  LET n == IF temp.t = "num" THEN temp.n ELSE 0
      numeric == temp.t \in {"num", "null"}
  IN  IF fromUnit = toUnit THEN MathRound(temp)
      ELSE IF fromUnit = "C" /\ toUnit = "F"
           THEN IF numeric THEN Num(10 * ((9 * n + 1625) \div 50)) ELSE NaN
      ELSE IF fromUnit = "F" /\ toUnit = "C"
           THEN IF numeric THEN Num(10 * (((n - 320) * 5 + 45) \div 90)) ELSE NaN
      ELSE MathRound(temp)

\* Math.round((temp * 9/5) + 32) and Math.round((temp - 32) * 5/9) on a
\* value in tenths: floor(v + 0.5) is (9n + 1625) div 50, respectively
\* (5(n - 320) + 45) div 90, whole units. null is 0 in arithmetic,
\* undefined and NaN give NaN.
convertTemperature(temp, fromUnit, toUnit) ==
  LET n == IF temp.t = "num" THEN temp.n ELSE 0
      numeric == temp.t \in {"num", "null"}
  IN  IF fromUnit = toUnit THEN temp
      ELSE IF fromUnit = "C" /\ toUnit = "F"
           THEN IF numeric THEN Num(10 * ((9 * n + 1625) \div 50)) ELSE NaN
      ELSE IF fromUnit = "F" /\ toUnit = "C"
           THEN IF numeric THEN Num(10 * (((n - 320) * 5 + 45) \div 90)) ELSE NaN
      ELSE temp

(***************************************************************************)
(* weather.js: getWeatherCategory                                          *)
(***************************************************************************)
categoryMap ==
  ("clear-day" :> "sunny") @@ ("clear-night" :> "clear-night") @@
  ("partly-cloudy-day" :> "cloudy") @@ ("partly-cloudy-night" :> "cloudy") @@
  ("cloudy" :> "cloudy") @@ ("rain" :> "rainy") @@ ("snow" :> "snowy") @@
  ("wind" :> "windy") @@ ("fog" :> "foggy")

\* categoryMap is an object literal: a lookup that finds no own property
\* continues in Object.prototype. The inherited values are functions and
\* objects; they are written here as the strings they convert to.
ObjectPrototype ==
  ("constructor" :> "function Object() { [native code] }") @@
  ("toString" :> "function toString() { [native code] }") @@
  ("valueOf" :> "function valueOf() { [native code] }") @@
  ("hasOwnProperty" :> "function hasOwnProperty() { [native code] }") @@
  ("isPrototypeOf" :> "function isPrototypeOf() { [native code] }") @@
  ("propertyIsEnumerable" :> "function propertyIsEnumerable() { [native code] }") @@
  ("toLocaleString" :> "function toLocaleString() { [native code] }") @@
  ("__proto__" :> "[object Object]")

\* the property key a value is converted to
PropertyKey(v) ==
  CASE v.t = "str" -> v.s
    [] v.t = "undefined" -> "undefined"
    [] v.t = "null" -> "null"
    [] v.t = "nan" -> "NaN"
    [] OTHER -> ToString(v.n)

\* categoryMap[iconCode] || 'cloudy': every value found is truthy
getWeatherCategory(code) ==
  LET key == PropertyKey(code)
  IN  IF key \in DOMAIN categoryMap THEN categoryMap[key]
      ELSE IF key \in DOMAIN ObjectPrototype THEN ObjectPrototype[key]
      ELSE "cloudy"

(***************************************************************************)
(* weather.js: getWeatherData, from the settled fetch on                   *)
(***************************************************************************)
\* a check that takes only the 4xx statuses for failures
ResponseOk_not4xx(status) == status >= 200 /\ ~(status >= 400 /\ status <= 499)

\* response.ok
ResponseOk(status) == status >= 200 /\ status <= 299

LocationNotFound == "Location not found. Please check the spelling and try again."

InvalidApiKey == "Invalid API key. Please check your configuration."

TooManyRequests == "Too many requests. Please try again later."

FailedWithStatus(status) ==
  "Failed to fetch weather data (Status: " \o ToString(status) \o ")"

\* the message of the TypeError a fetch rejects with
FailedToFetch == "Failed to fetch"

\* the message of the SyntaxError response.json() rejects with
UnexpectedToken == "Unexpected token in JSON"

\* a classification without the 429 branch
StatusError_no429(status) ==
  IF status = 400 THEN LocationNotFound
  ELSE IF status = 401 THEN InvalidApiKey
  ELSE FailedWithStatus(status)

\* the error thrown for a response that is not ok
StatusError(status) ==
  IF status = 400 THEN LocationNotFound
  ELSE IF status = 401 THEN InvalidApiKey
  ELSE IF status = 429 THEN TooManyRequests
  ELSE FailedWithStatus(status)

\* The completion of getWeatherData for a settled fetch; parsed tells
\* whether response.json() was called, normalized whether
\* processWeatherData was.
getWeatherData(resp) ==
  LET Done(c, p, z) == [threw |-> c.threw, error |-> c.error, value |-> c.value,
                        parsed |-> p, normalized |-> z]
  IN  IF resp.kind = "rejected" THEN Done(Throw(FailedToFetch), FALSE, FALSE)
      ELSE IF ~ResponseOk(resp.status)
           THEN Done(Throw(StatusError(resp.status)), FALSE, FALSE)
      ELSE IF ~resp.body.json THEN Done(Throw(UnexpectedToken), TRUE, FALSE)
      ELSE Done(processWeatherData(resp.body.data), TRUE, TRUE)

(***************************************************************************)
(* weather.js: getWeatherGif, from the settled fetch on                    *)
(***************************************************************************)
\* if (data.data && data.data.images) { url: data.data.images.original.url,
\* ... }: reading .data of null and .url of undefined throw a TypeError,
\* which the catch turns into null like every other error.
getWeatherGif(resp, weatherCondition) ==
  IF resp.kind = "rejected" THEN Null
  ELSE IF ~ResponseOk(resp.status) THEN Null
  ELSE IF ~resp.body.json THEN Null
  ELSE IF resp.body.t = "null" THEN Null
  ELSE LET data == resp.body.data
       IN  IF data.t = "object" /\ data.images.t = "object"
           THEN IF data.images.original.t = "object"
                THEN [ url       |-> data.images.original.url,
                       title     |-> data.title,
                       condition |-> weatherCondition ]
                ELSE Null
           ELSE Null

(***************************************************************************)
(* The provider's payload (spec section 6): the fields the code reads      *)
(***************************************************************************)
\* a numeric value moved by k whole units; a missing value stays missing
Shift(v, k) == IF v.t = "num" THEN Num(v.n + 10 * k) ELSE v

\* a string field that is present exactly when w is
Text(w, str) == IF w.t = "num" THEN Str(str) ELSE w

\* the daily record of day i (0-based): v sets the fields the code rounds,
\* w the fields it passes through
Day(i, v, w, icon) ==
  [ datetime    |-> Str("2024-01-" \o ToString(10 + i)),
    temp        |-> v,
    feelslike   |-> Shift(v, -1),
    tempmax     |-> Shift(v, 2),
    tempmin     |-> Shift(v, -20),
    humidity    |-> Shift(v, 5),
    windspeed   |-> Shift(v, 1),
    visibility  |-> w,
    pressure    |-> Shift(w, 100),
    uvindex     |-> Shift(w, -1),
    conditions  |-> Text(w, "conditions " \o icon),
    description |-> Text(w, "description " \o icon),
    icon        |-> Text(w, icon),
    sunrise     |-> Text(w, "06:00:00"),
    sunset      |-> Text(w, "18:00:00"),
    precipprob  |-> Shift(w, 3) ]

\* a payload of n daily records for a resolved address: day k carries
\* (v, w, icon), every other day i its own values
Payload(address, n, k, v, w, icon) ==
  [ resolvedAddress |-> Str(address),
    timezone        |-> Str("Europe/Oslo"),
    latitude        |-> Num(599),
    longitude       |-> Num(107),
    description     |-> Str("description of " \o address),
    days            |-> [i \in 1..n |->
                           IF i = k THEN Day(i - 1, v, w, icon)
                           ELSE Day(i - 1, Num(10 * i + 3), Num(100 + i), "cloudy")] ]

Min(a, b) == IF a < b THEN a ELSE b

RoundedInputs == {Num(x) : x \in (0 - MaxTenths)..MaxTenths} \cup {Undefined, Null}

PassedInputs == {Num(97), Undefined, Null}

ProcessInputs ==
  {Payload("Oslo, Norway", n, k, v, w, "rain") :
     n \in 0..MaxDays, k \in 1..2, v \in RoundedInputs, w \in PassedInputs}

Pending == [state |-> "pending"]

\* no call of convertTemperature made
NoConversion == [temp |-> Null, fromUnit |-> "", toUnit |-> "", results |-> << >>]

(***************************************************************************)
(* dom.js: the elements and the functions that write them.                 *)
(* A text the code builds from a value and a unit, `${v}°${unit}` or       *)
(* `${v} ${unit}`, is the record [v, unit]; a text that is one value is    *)
(* that value. The date texts (formatDate, getDayOfWeek) are not kept.     *)
(***************************************************************************)
Blank == Str("")

\* the page before any handler has run: every section hidden, no text
InitialElements ==
  [ loadingHidden    |-> TRUE,
    errorHidden      |-> TRUE,
    errorText        |-> "",
    weatherHidden    |-> TRUE,
    locationName     |-> Blank,
    currentTemp      |-> Blank,
    tempUnit         |-> "",
    weatherIcon      |-> [src |-> "", alt |-> Blank],
    weatherCondition |-> Blank,
    feelsLike        |-> [v |-> Blank, unit |-> ""],
    humidity         |-> Blank,
    windSpeed        |-> [v |-> Blank, unit |-> ""],
    visibility       |-> [v |-> Blank, unit |-> ""],
    pressure         |-> Blank,
    uvIndex          |-> Blank,
    gifHidden        |-> TRUE,
    gifImage         |-> [src |-> Blank, alt |-> Blank],
    gifCondition     |-> Blank,
    forecastCards    |-> << >>,
    toggleUnit       |-> "celsius",
    toggleActive     |-> "C" ]

showLoading(el) ==
  [el EXCEPT !.loadingHidden = FALSE, !.errorHidden = TRUE, !.weatherHidden = TRUE]

hideLoading(el) == [el EXCEPT !.loadingHidden = TRUE]

\* an error banner that leaves the loading indicator as it is
showError_loadingLeft(el, message) ==
  [el EXCEPT !.errorText = message, !.errorHidden = FALSE, !.weatherHidden = TRUE]

showError(el, message) ==
  hideLoading([el EXCEPT !.errorText = message, !.errorHidden = FALSE,
                         !.weatherHidden = TRUE])

hideError(el) == [el EXCEPT !.errorHidden = TRUE]

\* a weather display that leaves the error banner as it is
showWeatherDisplay_errorLeft(el) == hideLoading([el EXCEPT !.weatherHidden = FALSE])

showWeatherDisplay(el) == hideLoading(hideError([el EXCEPT !.weatherHidden = FALSE]))

\* weather.js: getWeatherIconUrl, without the fixed prefix
getWeatherIconUrl(code) == PropertyKey(code) \o ".svg"

createForecastCard(dayData, unit) ==
  [ icon       |-> getWeatherIconUrl(dayData.icon),
    conditions |-> dayData.conditions,
    high       |-> dayData.tempMax,
    low        |-> dayData.tempMin ]

displayForecast(el, forecastData, unit) ==
  [el EXCEPT !.forecastCards =
     [i \in 1..Len(forecastData) |-> createForecastCard(forecastData[i], unit)]]

\* DOMTokenList.add throws InvalidCharacterError on a token with whitespace;
\* the strings with whitespace a category can be are the inherited values
ContainsWhitespace(token) == \E k \in DOMAIN ObjectPrototype : ObjectPrototype[k] = token

InvalidCharacterError == "The token provided contains HTML space characters"

\* the class list and the completion of updatePageBackground
updatePageBackground(classes, code) ==
  LET cat == getWeatherCategory(code)
      removed == classes \ {"sunny", "cloudy", "rainy", "snowy", "clear-night"}
  IN  IF ContainsWhitespace(cat)
      THEN [threw |-> TRUE, error |-> InvalidCharacterError, classes |-> removed,
            category |-> cat]
      ELSE [threw |-> FALSE, error |-> "", classes |-> removed \cup {cat},
            category |-> cat]

\* the elements, the class list and the completion of displayWeather
displayWeather(el, classes, weatherData, unit) ==
  LET texts == [el EXCEPT
        !.locationName     = weatherData.location.name,
        !.currentTemp      = weatherData.current.temp,
        !.tempUnit         = unit,
        !.weatherIcon      = [src |-> getWeatherIconUrl(weatherData.current.icon),
                              alt |-> weatherData.current.conditions],
        !.weatherCondition = weatherData.current.conditions,
        !.feelsLike        = [v |-> weatherData.current.feelsLike, unit |-> unit],
        !.humidity         = weatherData.current.humidity,
        !.windSpeed        = [v |-> weatherData.current.windSpeed,
                              unit |-> IF unit = "C" THEN "km/h" ELSE "mph"],
        !.visibility       = [v |-> weatherData.current.visibility,
                              unit |-> IF unit = "C" THEN "km" ELSE "mi"],
        !.pressure         = weatherData.current.pressure,
        !.uvIndex          = weatherData.current.uvIndex]
      cards == displayForecast(texts, weatherData.forecast, unit)
      bg == updatePageBackground(classes, weatherData.current.icon)
  IN  IF bg.threw
      THEN [threw |-> TRUE, error |-> bg.error, elements |-> cards,
            classes |-> bg.classes]
      ELSE [threw |-> FALSE, error |-> "", elements |-> showWeatherDisplay(cards),
            classes |-> bg.classes]

displayWeatherGif(el, gifData) ==
  IF gifData = Null
  THEN [el EXCEPT !.gifHidden = TRUE]
  ELSE [el EXCEPT !.gifImage = [src |-> gifData.url, alt |-> gifData.title],
                  !.gifCondition = gifData.condition,
                  !.gifHidden = FALSE]

updateToggleButton(el, activeUnit) ==
  [el EXCEPT !.toggleActive = IF activeUnit \in {"C", "F"} THEN activeUnit ELSE "none"]

\* the elements and the completion of updateTemperatureUnit: a card with no
\* forecast record at its index makes dayData undefined and dayData.tempMax
\* throw, after the current temperature and the cards before it were written
updateTemperatureUnit(el, weatherData, newUnit) ==
  LET oldUnit == IF newUnit = "C" THEN "F" ELSE "C"
      texts == [el EXCEPT
        !.currentTemp = convertTemperature(weatherData.current.temp, oldUnit, newUnit),
        !.feelsLike   = [v |-> convertTemperature(weatherData.current.feelsLike,
                                                  oldUnit, newUnit),
                         unit |-> newUnit],
        !.tempUnit    = newUnit,
        !.windSpeed   = [v |-> weatherData.current.windSpeed,
                         unit |-> IF newUnit = "C" THEN "km/h" ELSE "mph"],
        !.visibility  = [v |-> weatherData.current.visibility,
                         unit |-> IF newUnit = "C" THEN "km" ELSE "mi"]]
      known == Min(Len(el.forecastCards), Len(weatherData.forecast))
      cards == [i \in 1..Len(el.forecastCards) |->
                 IF i <= known
                 THEN [el.forecastCards[i] EXCEPT
                        !.high = convertTemperature(weatherData.forecast[i].tempMax,
                                                    oldUnit, newUnit),
                        !.low  = convertTemperature(weatherData.forecast[i].tempMin,
                                                    oldUnit, newUnit)]
                 ELSE el.forecastCards[i]]
      written == [texts EXCEPT !.forecastCards = cards]
  IN  IF Len(el.forecastCards) > Len(weatherData.forecast)
      THEN [threw |-> TRUE, elements |-> written]
      ELSE [threw |-> FALSE, elements |-> updateToggleButton(written, newUnit)]

setCurrentUnit(el, unit) ==
  [el EXCEPT !.toggleUnit = IF unit = "C" THEN "celsius" ELSE "fahrenheit"]

(***************************************************************************)
(* The user's input and the providers' responses                           *)
(***************************************************************************)
City(i) == "city" \o ToString(i)

\* what the user may have typed when submitting query i
LocationInputs(i) == {"", "   ", City(i), " " \o City(i) \o " "}

\* String.prototype.trim on these inputs
Trim(value, i) ==
  IF value \in {"", "   "} THEN ""
  ELSE IF value = " " \o City(i) \o " " THEN City(i)
  ELSE value

NoBody == [json |-> FALSE, t |-> "text", data |-> Null]

Rejected == [kind |-> "rejected", status |-> 0, body |-> NoBody]

Http(status, body) == [kind |-> "http", status |-> status, body |-> body]

\* the statuses a settled weather fetch carries in a session
WeatherStatuses == {200, 400, 429, 500}

\* the icon token the provider reports for a location
Climate(location) ==
  IF location = City(1) THEN "rain"
  ELSE IF location = City(2) THEN "snow"
  ELSE "wind"

\* the bodies a 2xx weather response for a location may carry: text that is
\* not JSON, and payloads of 0, 3 and 2 daily records
WeatherKinds(location) ==
  {<<0, 200, Climate(location)>>, <<3, 200, Climate(location)>>, <<2, 185, "constructor">>}

WeatherBodies(location) ==
  {NoBody} \cup
  {[json |-> TRUE, t |-> "object", data |-> Payload(location, k[1], 1, Num(k[2]), Num(97), k[3])] :
     k \in WeatherKinds(location)}

WeatherResponses(location) ==
  {Rejected} \cup
  {Http(st, NoBody) : st \in WeatherStatuses} \cup
  {Http(200, b) : b \in WeatherBodies(location)}

Absent == [t |-> "undefined"]

\* the JSON bodies of the media-search endpoint, from null to a full match
GifBodies(condition) ==
  LET Json(data) == [json |-> TRUE, t |-> "object", data |-> data]
      Data(images) == [t |-> "object", images |-> images, title |-> Str("gif title")]
      Images(original) == [t |-> "object", original |-> original]
  IN  { NoBody,
        [json |-> TRUE, t |-> "null", data |-> Null],
        Json(Absent),
        Json(Data(Absent)),
        Json(Data(Images(Absent))),
        Json(Data(Images([t |-> "object", url |-> Undefined]))),
        Json(Data(Images([t |-> "object", url |-> Str("https://giphy.com/" \o PropertyKey(condition))]))) }

GifResponses(condition) ==
  {Rejected, Http(500, NoBody)} \cup {Http(200, b) : b \in GifBodies(condition)}

(***************************************************************************)
(* app.js                                                                  *)
(***************************************************************************)
GIPHY_API_KEY == "DENP1Z3saQXX7pYIfUkH0zV1WCEkx4u6"

\* the preferences localStorage may hold at startup: none, or a saved unit
StoredPreferences == {Null, [unit |-> "C"], [unit |-> "F"]}

\* a startup whose loadPreferences applies the saved unit to currentUnit
\* and leaves apiUnitGroup as declared
AppStarted_unitOnly(saved) ==
  /\ currentWeatherData = Null
  /\ currentUnit = IF saved = Null THEN "C" ELSE saved.unit
  /\ apiUnitGroup = "metric"
  /\ elements = IF saved = Null THEN InitialElements
                ELSE updateToggleButton(setCurrentUnit(InitialElements, saved.unit),
                                        saved.unit)
  /\ queries = << >>
  /\ gifs = {}
  /\ lastOp = [op |-> "start"]

\* the state after the scripts have run: the declarations, initializeApp
\* (WEATHER_API_KEY is configured, so it shows no error) and
\* loadPreferences(). No fault escapes a handler below, so the window
\* 'error' and 'unhandledrejection' listeners never run.
AppStarted(saved) ==
  /\ currentWeatherData = Null
  /\ currentUnit = IF saved = Null THEN "C" ELSE saved.unit
  /\ apiUnitGroup = IF saved = Null THEN "metric"
                    ELSE IF saved.unit = "C" THEN "metric" ELSE "us"
  /\ elements = IF saved = Null THEN InitialElements
                ELSE updateToggleButton(setCurrentUnit(InitialElements, saved.unit),
                                        saved.unit)
  /\ queries = << >>
  /\ gifs = {}
  /\ lastOp = [op |-> "start"]

Init ==
  /\ \E saved \in StoredPreferences : AppStarted(saved)
  /\ bodyClasses = {}
  /\ rawData = Null
  /\ processedData = Pending
  /\ iconCode = Undefined
  /\ category = ""
  /\ response = Rejected
  /\ weatherResult = Pending
  /\ conversion = NoConversion

\* a submission that takes the input as typed, untrimmed
handleFormSubmit_untrimmed(value) ==
  LET location == value
  IN  /\ value \in LocationInputs(Len(queries) + 1)
      /\ IF location = ""
         THEN /\ elements' = showError(elements, "Please enter a location")
              /\ lastOp' = [op |-> "input rejected"]
              /\ UNCHANGED queries
         ELSE /\ Len(queries) < MaxQueries
              /\ elements' = showLoading(elements)
              /\ queries' = Append(queries, [location |-> location,
                                             unit |-> apiUnitGroup,
                                             state |-> "pending"])
              /\ lastOp' = [op |-> "query", q |-> Len(queries) + 1]
      /\ UNCHANGED <<currentWeatherData, currentUnit, apiUnitGroup, bodyClasses, gifs, callVars>>

\* handleFormSubmit, and fetchAndDisplayWeather up to its await
handleFormSubmit(value) ==
  LET location == Trim(value, Len(queries) + 1)
  IN  /\ value \in LocationInputs(Len(queries) + 1)
      /\ IF location = ""
         THEN /\ elements' = showError(elements, "Please enter a location")
              /\ lastOp' = [op |-> "input rejected"]
              /\ UNCHANGED queries
         ELSE /\ Len(queries) < MaxQueries
              /\ elements' = showLoading(elements)
              /\ queries' = Append(queries, [location |-> location,
                                             unit |-> apiUnitGroup,
                                             state |-> "pending"])
              /\ lastOp' = [op |-> "query", q |-> Len(queries) + 1]
      /\ UNCHANGED <<currentWeatherData, currentUnit, apiUnitGroup, bodyClasses, gifs, callVars>>

\* fetchAndDisplayWeather from the await on, for the settled fetch of query q;
\* fetchAndDisplayGif runs up to its own await inside it
ApplyWeather(q, resp) ==
  LET data == getWeatherData(resp)
      shown == displayWeather(elements, bodyClasses, data.value, currentUnit)
      Fallback(msg) == IF msg = "" THEN "Failed to fetch weather data. Please try again."
                       ELSE msg
  IN  /\ queries' = [queries EXCEPT ![q].state = "done"]
      /\ lastOp' = [op |-> "weather", q |-> q, response |-> resp]
      /\ IF data.threw
         THEN /\ elements' = showError(elements, Fallback(data.error))
              /\ UNCHANGED <<currentWeatherData, bodyClasses, gifs>>
         ELSE /\ currentWeatherData' = data.value
              /\ bodyClasses' = shown.classes
              /\ IF shown.threw
                 THEN /\ elements' = showError(shown.elements, Fallback(shown.error))
                      /\ UNCHANGED gifs
                 ELSE /\ elements' = shown.elements
                      /\ gifs' = IF GIPHY_API_KEY = "YOUR_GIPHY_API_KEY_HERE" THEN gifs
                                 ELSE gifs \cup {[q |-> q,
                                                  condition |-> data.value.current.conditions]}
      /\ UNCHANGED <<currentUnit, apiUnitGroup, callVars>>

\* a continuation that applies only the response of the newest query
fetchAndDisplayWeather_latestOnly(q, resp) ==
  /\ q \in 1..Len(queries)
  /\ queries[q].state = "pending"
  /\ resp \in WeatherResponses(queries[q].location)
  /\ IF q = Len(queries)
     THEN ApplyWeather(q, resp)
     ELSE /\ queries' = [queries EXCEPT ![q].state = "done"]
          /\ lastOp' = [op |-> "weather", q |-> q, response |-> resp]
          /\ UNCHANGED <<currentWeatherData, currentUnit, apiUnitGroup, elements,
                         bodyClasses, gifs, callVars>>

fetchAndDisplayWeather(q, resp) ==
  /\ q \in 1..Len(queries)
  /\ queries[q].state = "pending"
  /\ resp \in WeatherResponses(queries[q].location)
  /\ ApplyWeather(q, resp)

\* a continuation that shows the image of the newest query only
fetchAndDisplayGif_guarded(g, resp) ==
  LET gifData == getWeatherGif(resp, g.condition)
  IN  /\ g \in gifs
      /\ resp \in GifResponses(g.condition)
      /\ gifs' = gifs \ {g}
      /\ elements' = IF gifData # Null /\ g.q = Len(queries)
                     THEN displayWeatherGif(elements, gifData)
                     ELSE elements
      /\ lastOp' = [op |-> "gif", q |-> g.q, shown |-> gifData # Null]
      /\ UNCHANGED <<currentWeatherData, currentUnit, apiUnitGroup, bodyClasses, queries, callVars>>

\* fetchAndDisplayGif from the await on, for the settled fetch of lookup g
fetchAndDisplayGif(g, resp) ==
  LET gifData == getWeatherGif(resp, g.condition)
  IN  /\ g \in gifs
      /\ resp \in GifResponses(g.condition)
      /\ gifs' = gifs \ {g}
      /\ elements' = IF gifData # Null THEN displayWeatherGif(elements, gifData)
                     ELSE elements
      /\ lastOp' = [op |-> "gif", q |-> g.q, shown |-> gifData # Null]
      /\ UNCHANGED <<currentWeatherData, currentUnit, apiUnitGroup, bodyClasses, queries, callVars>>

\* a toggle that writes the converted temperatures back into the stored data
handleUnitToggle_converting ==
  LET newUnit == IF currentUnit = "C" THEN "F" ELSE "C"
      converted == [currentWeatherData EXCEPT
                      !.current.temp = convertTemperature(@, currentUnit, newUnit),
                      !.current.feelsLike = convertTemperature(@, currentUnit, newUnit)]
  IN  /\ lastOp' = [op |-> "toggle", held |-> currentWeatherData # Null]
      /\ IF currentWeatherData = Null
         THEN UNCHANGED <<currentWeatherData, currentUnit, apiUnitGroup, elements>>
         ELSE /\ currentUnit' = newUnit
              /\ apiUnitGroup' = IF currentUnit = "C" THEN "us" ELSE "metric"
              /\ currentWeatherData' = converted
              /\ elements' = [setCurrentUnit(elements, newUnit) EXCEPT
                                !.currentTemp = converted.current.temp,
                                !.tempUnit = newUnit]
      /\ UNCHANGED <<bodyClasses, queries, gifs, callVars>>

handleUnitToggle ==
  LET newUnit == IF currentUnit = "C" THEN "F" ELSE "C"
  IN  /\ lastOp' = [op |-> "toggle", held |-> currentWeatherData # Null]
      /\ IF currentWeatherData = Null
         THEN UNCHANGED <<currentUnit, apiUnitGroup, elements>>
         ELSE /\ currentUnit' = newUnit
              /\ apiUnitGroup' = IF currentUnit = "C" THEN "us" ELSE "metric"
              /\ elements' = updateTemperatureUnit(setCurrentUnit(elements, newUnit),
                                                   currentWeatherData, newUnit).elements
      /\ UNCHANGED <<currentWeatherData, bodyClasses, queries, gifs, callVars>>

Next ==
  \/ \E value \in LocationInputs(Len(queries) + 1) : handleFormSubmit(value)
  \/ \E q \in 1..Len(queries) :
       \E resp \in WeatherResponses(queries[q].location) :
         fetchAndDisplayWeather(q, resp)
  \/ \E g \in gifs : \E resp \in GifResponses(g.condition) :
       fetchAndDisplayGif(g, resp)
  \/ handleUnitToggle

Spec == Init /\ [][Next]_vars

\* a weather fetch that failed: rejected, or settled with a non-2xx status
Failed(resp) == resp.kind = "rejected" \/ resp.status < 200 \/ resp.status > 299

Settled == \A q \in 1..Len(queries) : queries[q].state = "done"

\* C2: a query whose weather request fails (a non-2xx status or a
\* transport failure) has its body neither parsed nor normalized, does not
\* write currentWeatherData, and settles with the weather display hidden
\* and the error banner visible.
C2_FailedQueryShowsNoModel ==
  [][(lastOp'.op = "weather" /\ Failed(lastOp'.response)) =>
       /\ ~getWeatherData(lastOp'.response).parsed
       /\ ~getWeatherData(lastOp'.response).normalized
       /\ currentWeatherData' = currentWeatherData
       /\ elements'.weatherHidden
       /\ ~elements'.errorHidden
       /\ elements'.loadingHidden]_vars

C2_Witness ==
  /\ lastOp.op = "weather"
  /\ Failed(lastOp.response)
  /\ lastOp.response.kind = "http"
  /\ currentWeatherData # Null
  /\ elements.weatherHidden
  /\ ~elements.errorHidden

\* C4: once every submitted query has settled, the display is the one of
\* the response that settled last, whatever the submission order: its error
\* in the banner when it failed, else its view model stored and rendered.
C4_LastSettledWins ==
  (lastOp.op = "weather" /\ Settled) =>
    LET data == getWeatherData(lastOp.response)
        address == Str(queries[lastOp.q].location)
    IN  IF data.threw
        THEN /\ ~elements.errorHidden
             /\ elements.weatherHidden
             /\ elements.errorText = data.error
        ELSE /\ currentWeatherData = data.value
             /\ currentWeatherData.location.name = address
             /\ elements.locationName = address
             /\ elements.currentTemp = data.value.current.temp
             /\ Len(elements.forecastCards) = Len(data.value.forecast)
             /\ \/ ~elements.weatherHidden /\ elements.errorHidden
                \/ /\ elements.weatherHidden
                   /\ ~elements.errorHidden
                   /\ elements.errorText = InvalidCharacterError

C4_Witness ==
  /\ Len(queries) = 2
  /\ Settled
  /\ lastOp.op = "weather"
  /\ lastOp.q = 1
  /\ ~elements.weatherHidden
  /\ elements.locationName = Str(City(1))
  /\ currentWeatherData.location.name = Str(City(1))

\* a media-search response that carries an image: 2xx, JSON, with a string
\* at data.images.original.url
CarriesImage(resp) ==
  /\ resp.kind = "http"
  /\ resp.status >= 200 /\ resp.status <= 299
  /\ resp.body.json
  /\ resp.body.t = "object"
  /\ resp.body.data.t = "object"
  /\ resp.body.data.images.t = "object"
  /\ resp.body.data.images.original.t = "object"
  /\ resp.body.data.images.original.url.t = "str"

\* C5: whatever the image lookup ends in (transport failure, non-2xx,
\* unparsable or malformed payload, no data or images), getWeatherGif gives
\* null and the page is as before; the lookup never shows the error banner,
\* hides the weather display or changes the stored view model; and a
\* successful query shows its weather while its image lookup is pending.
C5_ImageLookupNeverSurfaces ==
  [][/\ \A g \in gifs : \A resp \in GifResponses(g.condition) :
          fetchAndDisplayGif(g, resp) =>
            /\ ~CarriesImage(resp) =>
                 /\ getWeatherGif(resp, g.condition) = Null
                 /\ elements' = elements
            /\ elements'.errorHidden = elements.errorHidden
            /\ elements'.weatherHidden = elements.weatherHidden
            /\ currentWeatherData' = currentWeatherData
     /\ (lastOp'.op = "weather" /\ ~elements'.weatherHidden) =>
          \E g \in gifs' : g.q = lastOp'.q]_vars

\* C6: a second toggle brings the current temperature, the feels-like and
\* every forecast high and low back to what was rendered before the first:
\* toggling again from the state a toggle has led to gives the texts the
\* toggle started from.
C6_DoubleToggleRestores ==
  [][(currentUnit' # currentUnit) =>
       LET again == updateTemperatureUnit(setCurrentUnit(elements', currentUnit),
                                          currentWeatherData', currentUnit).elements
       IN  /\ again.currentTemp = elements.currentTemp
           /\ again.feelsLike = elements.feelsLike
           /\ again.tempUnit = elements.tempUnit
           /\ Len(again.forecastCards) = Len(elements.forecastCards)
           /\ \A i \in 1..Len(elements.forecastCards) :
                /\ again.forecastCards[i].high = elements.forecastCards[i].high
                /\ again.forecastCards[i].low = elements.forecastCards[i].low]_vars

\* the elements with the texts and the toggle button of another page
WithTextsOf(el, other) ==
  [el EXCEPT !.currentTemp = other.currentTemp, !.feelsLike = other.feelsLike,
             !.tempUnit = other.tempUnit, !.windSpeed = other.windSpeed,
             !.visibility = other.visibility, !.forecastCards = other.forecastCards,
             !.toggleUnit = other.toggleUnit, !.toggleActive = other.toggleActive]

\* C7: a unit toggle leaves the stored view model as it is, field for
\* field, and issues no request; it changes the unit preference and the
\* rendered texts only.
C7_ToggleKeepsStoredModel ==
  [][lastOp'.op = "toggle" =>
       /\ currentWeatherData' = currentWeatherData
       /\ queries' = queries
       /\ gifs' = gifs
       /\ bodyClasses' = bodyClasses
       /\ WithTextsOf(elements', elements) = elements
       /\ Len(elements'.forecastCards) = Len(elements.forecastCards)]_vars

C7_Witness ==
  /\ lastOp.op = "toggle"
  /\ lastOp.held
  /\ currentWeatherData # Null
  /\ ~elements.weatherHidden
  /\ elements.tempUnit = currentUnit
  /\ elements.currentTemp # currentWeatherData.current.temp

\* C13: the step that starts a new non-empty query discards the held view
\* model: from then until that query succeeds no model of an earlier query
\* is held, so a toggle in that window finds none.
C13_NewQueryDiscardsModel ==
  [][lastOp'.op = "query" => currentWeatherData' = Null]_vars

\* C15: a submission whose location is empty, or blank once trimmed, shows
\* the error banner and issues no weather request and no image lookup; it
\* does not show the loading indicator and leaves the stored view model and
\* the unit preference as they were.
C15_EmptyQueryRejectedLocally ==
  [][\A value \in {"", "   "} :
       handleFormSubmit(value) =>
         /\ queries' = queries
         /\ gifs' = gifs
         /\ ~elements'.errorHidden
         /\ elements'.errorText = "Please enter a location"
         /\ elements'.loadingHidden
         /\ currentWeatherData' = currentWeatherData
         /\ currentUnit' = currentUnit
         /\ apiUnitGroup' = apiUnitGroup]_vars

C15_Witness ==
  /\ lastOp.op = "input rejected"
  /\ currentWeatherData # Null
  /\ currentUnit = "F"
  /\ Len(queries) = 1
  /\ ~elements.errorHidden
  /\ elements.errorText = "Please enter a location"
  /\ elements.weatherHidden

\* C16: an image lookup that settles with an image shows it whatever query
\* is displayed by then: the image fetched for query A's condition becomes
\* the visible one also when the weather display is query B's.
C16_ImageAppliedUnguarded ==
  [][\A g \in gifs : \A resp \in GifResponses(g.condition) :
       (CarriesImage(resp) /\ fetchAndDisplayGif(g, resp)) =>
         /\ ~elements'.gifHidden
         /\ elements'.gifCondition = g.condition
         /\ elements'.gifImage.src = resp.body.data.images.original.url
         /\ elements'.locationName = elements.locationName
         /\ elements'.weatherHidden = elements.weatherHidden]_vars

\* query B's weather with the image of query A, whose lookup settled last
C16_Witness ==
  /\ Len(queries) = 2 /\ Settled /\ gifs = {}
  /\ lastOp = [op |-> "gif", q |-> 1, shown |-> TRUE]
  /\ ~elements.weatherHidden
  /\ elements.locationName = Str(City(2))
  /\ elements.weatherCondition = Str("conditions snow")
  /\ ~elements.gifHidden
  /\ elements.gifCondition = Str("conditions rain")
  /\ elements.gifImage.src = Str("https://giphy.com/conditions rain")

\* C17: a response that is rendered is labelled with the unit of the unit
\* group its request was issued with, metric as C and us as F, also when
\* the unit was toggled between the request and the rendering.
C17_LabelMatchesRequestedUnits ==
  [][(lastOp'.op = "weather" /\ ~elements'.weatherHidden) =>
       LET requested == IF queries'[lastOp'.q].unit = "metric" THEN "C" ELSE "F"
       IN  /\ elements'.tempUnit = requested
           /\ elements'.feelsLike.unit = requested
           /\ currentUnit' = requested]_vars

\* C18: once a query or an error has occurred, at most one of the loading
\* indicator, the error banner and the weather display is visible, under
\* every interleaving of submissions, settlings and toggles.
C18_AtMostOnePanelVisible ==
  lastOp.op # "start" =>
    LET Shown(hidden) == IF hidden THEN 0 ELSE 1
    IN  Shown(elements.loadingHidden) + Shown(elements.errorHidden)
          + Shown(elements.weatherHidden) <= 1

\* query 1 displayed while query 2, submitted after it, is still in flight
C18_Witness ==
  /\ Len(queries) = 2
  /\ queries[1].state = "done" /\ queries[2].state = "pending"
  /\ lastOp.op = "weather" /\ lastOp.q = 1
  /\ ~elements.weatherHidden
  /\ elements.errorHidden /\ elements.loadingHidden

\* C19: when the image lookup of the query whose weather is displayed
\* fails or finds no image, the image section is hidden afterwards: the
\* image of an earlier query does not stay next to the new weather.
C19_NoImageHidesSection ==
  [][\A g \in gifs : \A resp \in GifResponses(g.condition) :
       (/\ fetchAndDisplayGif(g, resp)
        /\ getWeatherGif(resp, g.condition) = Null
        /\ ~elements.weatherHidden
        /\ elements.locationName = Str(queries[g.q].location)) =>
         elements'.gifHidden]_vars

\* the unit preference and the unit group of requests agree
UnitPairs == {<<"C", "metric">>, <<"F", "us">>}

\* C21: (currentUnit, apiUnitGroup) is (C, metric) or (F, us) in every
\* state: (C, metric) at startup with no stored preference, the stored unit
\* and its group with one; a toggle with a view model held flips both, and a
\* toggle with none held changes neither.
C21_UnitAndGroupAgree ==
  /\ [](<<currentUnit, apiUnitGroup>> \in UnitPairs)
  /\ [](lastOp.op = "start" =>
          \A saved \in StoredPreferences :
            AppStarted(saved) =>
              <<currentUnit, apiUnitGroup>> =
                IF saved = Null THEN <<"C", "metric">>
                ELSE IF saved.unit = "C" THEN <<"C", "metric">>
                ELSE <<"F", "us">>)
  /\ [][lastOp'.op = "toggle" =>
          IF currentWeatherData = Null
          THEN currentUnit' = currentUnit /\ apiUnitGroup' = apiUnitGroup
          ELSE /\ currentUnit' # currentUnit
               /\ apiUnitGroup' # apiUnitGroup
               /\ <<currentUnit', apiUnitGroup'>> \in UnitPairs]_vars

\* started in Celsius (query 1 was requested in metric), toggled to Fahrenheit
C21_Witness ==
  /\ lastOp = [op |-> "toggle", held |-> TRUE]
  /\ Len(queries) >= 1 /\ queries[1].unit = "metric"
  /\ currentUnit = "F" /\ apiUnitGroup = "us"
  /\ elements.toggleUnit = "fahrenheit"

\* The primary path: submissions, the settling of weather requests and unit
\* toggles. fetchAndDisplayGif is started by a successful query and left
\* pending: its continuation writes the image section only.
NextPrimary ==
  \/ \E value \in LocationInputs(Len(queries) + 1) : handleFormSubmit(value)
  \/ \E q \in 1..Len(queries) :
       \E resp \in WeatherResponses(queries[q].location) :
         fetchAndDisplayWeather(q, resp)
  \/ handleUnitToggle

\* Every issued weather request settles: the pending promise of query q is
\* resolved or rejected, and the continuation of fetchAndDisplayWeather runs.
SpecSettling ==
  /\ Init
  /\ [][NextPrimary]_vars
  /\ \A q \in 1..MaxQueries :
       WF_vars(/\ q <= Len(queries)
               /\ queries[q].state = "pending"
               /\ \E resp \in WeatherResponses(queries[q].location) :
                    fetchAndDisplayWeather(q, resp))

\* a settled weather fetch that makes the primary path throw: in
\* getWeatherData (transport, status, parsing, normalization) or in
\* displayWeather (rendering)
Faulted(resp) ==
  LET data == getWeatherData(resp)
  IN  \/ data.threw
      \/ updatePageBackground({}, data.value.current.icon).threw

\* C14: every query that shows the loading indicator comes to a state, at
\* its settling, with the indicator hidden and the weather display or the
\* error banner visible; every fault of the primary path, one thrown while
\* normalizing or rendering a 2xx response included, ends in the error
\* banner; and with no query in flight the indicator is hidden.
C14_EveryQueryEndsInDisplayOrError ==
  /\ \A q \in 1..MaxQueries :
       (q <= Len(queries) /\ queries[q].state = "pending" /\ lastOp = [op |-> "query", q |-> q])
         ~> (/\ lastOp.op = "weather" /\ lastOp.q = q
             /\ elements.loadingHidden
             /\ (~elements.weatherHidden \/ ~elements.errorHidden))
  /\ [](lastOp.op = "weather" /\ Faulted(lastOp.response) =>
          /\ ~elements.errorHidden
          /\ elements.weatherHidden
          /\ elements.loadingHidden
          /\ elements.errorText # "")
  /\ [](Settled => elements.loadingHidden)

C14_Witness ==
  /\ lastOp.op = "weather"
  /\ lastOp.response.kind = "http" /\ lastOp.response.status = 200
  /\ lastOp.response.body.json
  /\ Len(lastOp.response.body.data.days) = 0
  /\ Settled
  /\ elements.loadingHidden /\ ~elements.errorHidden /\ elements.weatherHidden
  /\ elements.errorText = TypeErrorMessage

(***************************************************************************)
(* processWeatherData called on its own, on every payload of ProcessInputs *)
(***************************************************************************)
InitProcess ==
  /\ AppStarted(Null)
  /\ bodyClasses = {}
  /\ rawData \in ProcessInputs
  /\ processedData = Pending
  /\ iconCode = Undefined
  /\ category = ""
  /\ response = Rejected
  /\ weatherResult = Pending
  /\ conversion = NoConversion

CallProcessWeatherData ==
  /\ processedData = Pending
  /\ processedData' = processWeatherData(rawData)
  /\ UNCHANGED <<appVars, bodyClasses, rawData, iconCode, category, response,
                 weatherResult, conversion>>

NextProcess == CallProcessWeatherData

SpecProcess == InitProcess /\ [][NextProcess]_vars

Normalized == processedData # Pending /\ ~processedData.threw

\* the fields processWeatherData rounds, as <<payload field, view-model field>>
RoundedCurrent ==
  {<<"temp", "temp">>, <<"feelslike", "feelsLike">>, <<"tempmax", "tempMax">>,
   <<"tempmin", "tempMin">>, <<"humidity", "humidity">>, <<"windspeed", "windSpeed">>}

RoundedForecast ==
  {<<"tempmax", "tempMax">>, <<"tempmin", "tempMin">>, <<"humidity", "humidity">>}

PassedCurrent ==
  {<<"visibility", "visibility">>, <<"pressure", "pressure">>, <<"uvindex", "uvIndex">>,
   <<"precipprob", "precipProb">>, <<"conditions", "conditions">>, <<"icon", "icon">>}

\* every <<payload value, stored value>> of the fields in current and forecast
StoredPairs(cur, fore) ==
  {<<rawData.days[1][f[1]], processedData.value.current[f[2]]>> : f \in cur}
  \cup
  UNION {{<<rawData.days[i + 1][f[1]], processedData.value.forecast[i][f[2]]>> : f \in fore} :
           i \in 1..Len(processedData.value.forecast)}

\* C3: for a payload of n >= 1 daily records, current is record 0 and
\* forecast is the records 1 .. min(7, n - 1) in their order: its length is
\* min(7, n - 1), and record 0 is not among them.
C3_ForecastIsNextSevenDays ==
  (processedData # Pending /\ Len(rawData.days) >= 1) =>
    LET n == Len(rawData.days)
        forecast == processedData.value.forecast
    IN  /\ ~processedData.threw
        /\ processedData.value.current.datetime = rawData.days[1].datetime
        /\ Len(forecast) = Min(7, n - 1)
        /\ (n >= 8 => Len(forecast) = 7)
        /\ (n = 1 => Len(forecast) = 0)
        /\ \A i \in 1..Len(forecast) :
             /\ forecast[i].date = rawData.days[i + 1].datetime
             /\ forecast[i].conditions = rawData.days[i + 1].conditions
             /\ forecast[i].date # rawData.days[1].datetime

C3_Witness ==
  /\ Normalized
  /\ Len(rawData.days) = 9
  /\ Len(processedData.value.forecast) = 7
  /\ processedData.value.forecast[7].date = rawData.days[8].datetime

\* C8 as stated: every numeric temperature, humidity and wind-speed value
\* is stored rounded to the nearest integer, an exact half going away from
\* zero, for negative values as for positive ones.
C8_HalvesAwayFromZero ==
  Normalized =>
    \A p \in StoredPairs(RoundedCurrent, RoundedForecast) :
      p[1].t = "num" =>
        /\ p[2].t = "num"
        /\ p[2].n % 10 = 0
        /\ IF p[1].n >= 0
           THEN p[2].n - p[1].n \in -4..5
           ELSE p[2].n - p[1].n \in -5..4

\* C8 amended: every numeric temperature, humidity and wind-speed value
\* that processWeatherData copies is stored rounded to the nearest integer,
\* an exact half going to the larger integer (18.5 gives 19, -18.5 gives -18).
C8_HalvesUp ==
  Normalized =>
    \A p \in StoredPairs(RoundedCurrent, RoundedForecast) :
      p[1].t = "num" =>
        /\ p[2].t = "num"
        /\ p[2].n % 10 = 0
        /\ p[2].n - p[1].n \in -4..5

C8_Witness ==
  /\ Normalized
  /\ rawData.days[1].temp = Num(185)
  /\ processedData.value.current.temp = Num(190)
  /\ rawData.days[1].tempmin = Num(-15)
  /\ processedData.value.current.tempMin = Num(-10)
  /\ rawData.days[1].windspeed = Num(195)
  /\ processedData.value.current.windSpeed = Num(200)

\* C9: a field that is missing (undefined or null) in a daily record is
\* absent in the view model, for the rounded fields as for the passed ones:
\* it is never 0 nor any other number.
C9_MissingStaysAbsent ==
  Normalized =>
    \A p \in StoredPairs(RoundedCurrent \cup PassedCurrent, RoundedForecast) :
      p[1].t \in {"undefined", "null"} => p[2].t \in {"undefined", "null"}

(***************************************************************************)
(* updatePageBackground called on its own, with any icon token             *)
(***************************************************************************)
IconCodes ==
  {Str(k) : k \in DOMAIN categoryMap \cup DOMAIN ObjectPrototype
                  \cup {"unknown-token-xyz", "", "sunny", "hail", "thunder-rain",
                        "showers-day", "showers-night", "snow-showers-day"}}
  \cup {Undefined, Null}

InitCategory ==
  /\ AppStarted(Null)
  /\ bodyClasses = {}
  /\ rawData = Null
  /\ processedData = Pending
  /\ iconCode = Undefined
  /\ category = ""
  /\ response = Rejected
  /\ weatherResult = Pending
  /\ conversion = NoConversion

CallUpdatePageBackground(code) ==
  LET bg == updatePageBackground(bodyClasses, code)
  IN  /\ iconCode' = code
      /\ category' = bg.category
      /\ bodyClasses' = bg.classes
      /\ UNCHANGED <<appVars, rawData, processedData, response, weatherResult,
                     conversion>>

NextCategory == \E code \in IconCodes : CallUpdatePageBackground(code)

SpecCategory == InitCategory /\ [][NextCategory]_vars

WeatherCategories ==
  {"sunny", "clear-night", "cloudy", "rainy", "snowy", "windy", "foggy"}

\* C10: getWeatherCategory maps every string token to one of the seven
\* categories: the nine listed tokens to their table entries, and every
\* other string, "constructor" and "toString" included, to cloudy.
C10_TotalOverStrings ==
  (category # "" /\ iconCode.t = "str") =>
    /\ category \in WeatherCategories
    /\ category =
         CASE iconCode.s = "clear-day" -> "sunny"
           [] iconCode.s = "clear-night" -> "clear-night"
           [] iconCode.s = "rain" -> "rainy"
           [] iconCode.s = "snow" -> "snowy"
           [] iconCode.s = "wind" -> "windy"
           [] iconCode.s = "fog" -> "foggy"
           [] OTHER -> "cloudy"

\* C20: after any sequence of displayed icon tokens the body carries
\* exactly one weather-category class, the category of the token displayed
\* last: every category class of an earlier display has been removed.
C20_ExactlyOneCategoryClass ==
  category \in WeatherCategories =>
    bodyClasses \cap WeatherCategories = {category}

(***************************************************************************)
(* getWeatherData called on its own, on every settled fetch                *)
(***************************************************************************)
FetchInputs ==
  {Rejected} \cup
  {Http(st, b) : st \in 200..MaxStatus, b \in WeatherBodies("Oslo")}

InitFetch ==
  /\ AppStarted(Null)
  /\ bodyClasses = {}
  /\ rawData = Null
  /\ processedData = Pending
  /\ iconCode = Undefined
  /\ category = ""
  /\ response \in FetchInputs
  /\ weatherResult = Pending
  /\ conversion = NoConversion

CallGetWeatherData ==
  /\ weatherResult = Pending
  /\ weatherResult' = getWeatherData(response)
  /\ UNCHANGED <<appVars, bodyClasses, rawData, processedData, iconCode, category,
                 response, conversion>>

NextFetch == CallGetWeatherData

SpecFetch == InitFetch /\ [][NextFetch]_vars

\* C1: a non-2xx status fixes the failure: 400 location unresolved, 401
\* invalid credential, 429 rate limited, any other the generic failure
\* carrying the status; the four differ, and a 2xx status gives none of them.
C1_StatusFixesReason ==
  (weatherResult # Pending /\ response.kind = "http") =>
    LET st == response.status
        generic == "Failed to fetch weather data (Status: " \o ToString(st) \o ")"
        ok == st \in 200..299
        named == { "Location not found. Please check the spelling and try again.",
                   "Invalid API key. Please check your configuration.",
                   "Too many requests. Please try again later." }
    IN  /\ ~ok => weatherResult.threw
        /\ st = 400 =>
             weatherResult.error = "Location not found. Please check the spelling and try again."
        /\ st = 401 => weatherResult.error = "Invalid API key. Please check your configuration."
        /\ st = 429 => weatherResult.error = "Too many requests. Please try again later."
        /\ (~ok /\ st \notin {400, 401, 429}) => weatherResult.error = generic
        /\ Cardinality(named \cup {generic}) = 4
        /\ ok => /\ weatherResult.error \notin named
                 /\ \A x \in 200..MaxStatus :
                      weatherResult.error #
                        "Failed to fetch weather data (Status: " \o ToString(x) \o ")"

C1_Witness ==
  /\ weatherResult # Pending
  /\ response.kind = "http"
  /\ response.status = 429
  /\ weatherResult.threw
  /\ weatherResult.error = TooManyRequests

(***************************************************************************)
(* convertTemperature called on its own: a value converted from one unit   *)
(* to another, and the result converted back                               *)
(***************************************************************************)
ConvertInputs ==
  {Num(10 * x) : x \in (0 - MaxDegrees)..MaxDegrees}
  \cup {Num(x) : x \in (0 - MaxTenths)..MaxTenths}
  \cup {Undefined, Null, NaN}

\* the units a caller may pass: the two the code knows, and one it does not
Units == {"C", "F", "K"}

InitConvert ==
  /\ AppStarted(Null)
  /\ bodyClasses = {}
  /\ rawData = Null
  /\ processedData = Pending
  /\ iconCode = Undefined
  /\ category = ""
  /\ response = Rejected
  /\ weatherResult = Pending
  /\ conversion \in [temp : ConvertInputs, fromUnit : Units, toUnit : Units,
                     results : {<< >>}]

\* the first call converts temp, the second converts its result back
CallConvertTemperature ==
  /\ Len(conversion.results) < 2
  /\ conversion' =
       [conversion EXCEPT !.results =
          IF Len(@) = 0
          THEN <<convertTemperature(conversion.temp, conversion.fromUnit,
                                    conversion.toUnit)>>
          ELSE Append(@, convertTemperature(@[1], conversion.toUnit,
                                            conversion.fromUnit))]
  /\ UNCHANGED <<appVars, bodyClasses, rawData, processedData, iconCode, category,
                 response, weatherResult>>

NextConvert == CallConvertTemperature

SpecConvert == InitConvert /\ [][NextConvert]_vars

\* C11: for a whole x, Celsius to Fahrenheit is 9x/5 + 32 rounded once to
\* the nearest whole number, Fahrenheit to Celsius is (f - 32) * 5/9 rounded
\* once, and converting x to Fahrenheit and back differs from x by at most 1.
C11_RoundTripWithinOne ==
  (/\ Len(conversion.results) = 2
   /\ conversion.fromUnit = "C" /\ conversion.toUnit = "F"
   /\ conversion.temp.t = "num" /\ conversion.temp.n % 10 = 0) =>
    LET x == conversion.temp.n
        f == conversion.results[1]
        c == conversion.results[2]
    IN  /\ f.t = "num" /\ f.n % 10 = 0
        /\ 5 * f.n - (9 * x + 1600) \in -24..25
        /\ c.t = "num" /\ c.n % 10 = 0
        /\ 9 * c.n - 5 * (f.n - 320) \in -44..45
        /\ c.n - x \in -10..10

C11_Witness ==
  /\ conversion.fromUnit = "C" /\ conversion.toUnit = "F"
  /\ conversion.temp = Num(370)
  /\ conversion.results = <<Num(990), Num(370)>>

\* C12: with the source unit equal to the target unit, C or F, the value
\* comes back as it went in, whole or not, unrounded.
C12_SameUnitIsIdentity ==
  (/\ Len(conversion.results) >= 1
   /\ conversion.fromUnit = conversion.toUnit
   /\ conversion.fromUnit \in {"C", "F"}) =>
    conversion.results[1] = conversion.temp

C12_Witness ==
  /\ conversion.fromUnit = "F" /\ conversion.toUnit = "F"
  /\ conversion.temp = Num(185)
  /\ conversion.results = <<Num(185), Num(185)>>

====
